---- MODULE Spec2Model ----
(* Model of tensorflow_probability/python/distributions/autoregressive.py:   *)
(* the Autoregressive distribution, a combinator over a user-supplied        *)
(* distribution_fn, an optional initial sample sample0 and an optional       *)
(* num_steps.  Optional values are sequences of length at most one: <<>> is  *)
(* Python's None and <<v>> is the value v.                                   *)
EXTENDS Integers, Sequences, FiniteSets, TLC

VARIABLES
  constructed,   \* "no", "yes" or "failed": whether __init__ has produced the object
  self,          \* the object's fields, set by __init__
  ext,           \* external mutable state that distribution_fn (and a tf.Variable num_steps) reads
  calls,         \* the invocations of distribution_fn made by the latest operation, in order
  op             \* the latest operation: its name, inputs, outcome and result

vars == <<constructed, self, ext, calls, op>>

----------------------------------------------------------------------------
(* Bounds of the model *)

MaxVal == 2      \* tensors (samples, values) are abstracted to 0..MaxVal
MaxSteps == 2    \* the largest num_steps, plain or held by a tf.Variable
MaxDim == 2      \* the largest dimension of an event shape
MaxCount == 2    \* the largest n of sample(n, ...)
MaxSeed == 1     \* explicit seeds and seed tokens are in 0..MaxSeed

None == <<>>
Some(v) == <<v>>

Vals == 0..MaxVal
Tokens == 0..MaxSeed
Seeds == {None, Some(0), Some(MaxSeed)}
Counts == {1, MaxCount}
DTypes == {"float32", "float64"}
ReparameterizationTypes == {"FULLY_REPARAMETERIZED", "NOT_REPARAMETERIZED"}
UnknownDim == -1
(* An event shape as distribution_fn's handles report it: the static shape *)
(* (a dimension may be unknown) and the shape tensor evaluated at run time *)
Events ==
  {[shape |-> s, shape_tensor |-> s] : s \in {<<>>, <<0>>, <<MaxDim>>}}
  \cup {[shape |-> <<UnknownDim>>, shape_tensor |-> <<MaxDim>>]}
VariableValues == {0, MaxSteps}

(* The external state: what distribution_fn reads when it is invoked. *)
Exts == [dtype : DTypes,
         reparameterization_type : ReparameterizationTypes,
         event : Events,
         variable : VariableValues]

(* The inputs of __init__. *)
Sample0Inputs == {None, Some(0)}
NumStepsInputs ==
  {None}
  \cup {Some([kind |-> "static", value |-> k, rank |-> 0]) : k \in {-1, 0, 1, MaxSteps}}
  \cup {Some([kind |-> "ref", value |-> 0, rank |-> 0])}

----------------------------------------------------------------------------
(* Collaborators: the distribution handles, distribution_fn, SeedStream *)

RECURSIVE Product(_)
Product(dims) ==
  IF dims = <<>> THEN 1 ELSE Head(dims) * Product(Tail(dims))

(* tensorshape_util.num_elements: the static element count, None if a dim is unknown *)
NumElements(shape) ==
  IF \E i \in 1..Len(shape) : shape[i] = UnknownDim
    THEN None
    ELSE Some(Product(shape))

(* tf.reduce_prod of a dynamic shape tensor *)
ReduceProd(shape_tensor) == Product(shape_tensor)

(* The instrumented distribution_fn: the handle it builds from its arguments *)
(* (args = <<>> for distribution_fn(), <<x>> for distribution_fn(x)) and the *)
(* external state it reads.  Its tags follow the external state, except that *)
(* it builds a float64 distribution from the input MaxVal.                   *)
DistributionFn(args, e) ==
  [dtype |-> IF args = <<MaxVal>> THEN "float64" ELSE e.dtype,
   reparameterization_type |-> e.reparameterization_type,
   event_shape |-> e.event.shape,
   event_shape_tensor |-> e.event.shape_tensor,
   batch_shape_tensor |-> IF args = <<>> THEN <<>> ELSE <<args[1] + 1>>,
   loc |-> IF args = <<>> THEN 0 ELSE (args[1] + 1) % (MaxVal + 1)]

(* handle.sample(n, seed=token); n = <<>> when the sample shape is defaulted *)
HandleSample(h, n, token) ==
  (h.loc + token + (IF n = None THEN 0 ELSE n[1])) % (MaxVal + 1)

HandleLogProb(h, value) == 0 - ((value - h.loc) * (value - h.loc))

HandleProb(h, value) == IF value = h.loc THEN 1 ELSE 0

Salt == "Autoregressive"

SaltCode(salt) == IF salt = "Autoregressive" THEN 1 ELSE 0

(* SeedStream(seed, salt)(): a function of seed and salt for an explicit     *)
(* seed, an arbitrary token (fresh) when the seed is omitted.                *)
SeedStream(seed, salt, fresh) ==
  IF seed = None THEN fresh ELSE (seed[1] + SaltCode(salt)) % (MaxSeed + 1)

----------------------------------------------------------------------------
(* Helpers of the object *)

NoError == [what |-> "", previously |-> "", now |-> ""]
UnknownShape == [ranked |-> FALSE, dims |-> <<>>]
KnownShape(dims) == [ranked |-> TRUE, dims |-> dims]

NullSelf == [distribution_fn |-> "",
             sample0 |-> None,
             num_steps |-> None,
             validate_args |-> FALSE,
             dtype |-> "",
             reparameterization_type |-> ""]

NoOp == [name |-> "none", outcome |-> "ok", n |-> None, seed |-> None,
         token |-> None, arg |-> None, value |-> None, shape |-> UnknownShape,
         error |-> NoError, path |-> "", steps |-> None, assertions |-> {},
         fn |-> "", tensor |-> None, repeat |-> FALSE,
         draws |-> <<>>, graph |-> FALSE, stale |-> UnknownShape]

Call(args, e) == [args |-> args, ret |-> DistributionFn(args, e)]

(* One call of a handle's sample: the count and the seed token it received *)
Draw(n, token) == [n |-> n, token |-> token]

(* tensor_util.is_ref *)
IsRef(t) == t.kind = "ref"

(* The value a num_steps tensor holds when it is read *)
NumStepsValue(t, e) == IF IsRef(t) THEN e.variable ELSE t.value

(* tf.get_static_value(tf.convert_to_tensor(num_steps)): the value of a     *)
(* plain tensor; for a tf.Variable the value read in eager execution and    *)
(* None while a graph is being built.                                       *)
GetStaticValue(t, e, graph) ==
  IF IsRef(t) /\ graph THEN None ELSE Some(NumStepsValue(t, e))

(* _parameter_control_dependencies collecting when is_init equals is_ref *)
ParameterControlDependencies_sameAsRef(obj, is_init) ==
  IF ~obj.validate_args
    THEN {}
    ELSE IF obj.num_steps # None /\ is_init = IsRef(obj.num_steps[1])
           THEN {"rank", "positive"}
           ELSE {}

(* _parameter_control_dependencies: the assertions it collects *)
ParameterControlDependencies(obj, is_init) ==
  IF ~obj.validate_args
    THEN {}
    ELSE IF obj.num_steps # None /\ is_init # IsRef(obj.num_steps[1])
           THEN {"rank", "positive"}
           ELSE {}

(* assert_util.assert_rank(num_steps, 0) and assert_util.assert_positive *)
AssertionHolds(a, obj, e) ==
  IF a = "rank"
    THEN obj.num_steps[1].rank = 0
    ELSE NumStepsValue(obj.num_steps[1], e) > 0

(* The argument list of the base call: distribution_fn(sample0) or distribution_fn() *)
BaseArgs(obj) == IF obj.sample0 # None THEN <<obj.sample0[1]>> ELSE <<>>

(* _get_distribution0 without its reparameterization_type check *)
GetDistribution0_noReparameterizationCheck(obj, e) ==
  LET c == Call(BaseArgs(obj), e)
      ret == c.ret
  IN  IF ret.dtype # obj.dtype
        THEN [ok |-> FALSE, ret |-> ret, calls |-> <<c>>,
              error |-> [what |-> "dtype", previously |-> obj.dtype,
                         now |-> ret.dtype]]
        ELSE [ok |-> TRUE, ret |-> ret, calls |-> <<c>>, error |-> NoError]

(* _get_distribution0 without its dtype check *)
GetDistribution0_noDtypeCheck(obj, e) ==
  LET c == Call(BaseArgs(obj), e)
      ret == c.ret
  IN  IF ret.reparameterization_type # obj.reparameterization_type
        THEN [ok |-> FALSE, ret |-> ret, calls |-> <<c>>,
              error |-> [what |-> "reparameterize_type",
                         previously |-> obj.reparameterization_type,
                         now |-> ret.reparameterization_type]]
        ELSE [ok |-> TRUE, ret |-> ret, calls |-> <<c>>, error |-> NoError]

(* _get_distribution0 comparing reparameterization_type before dtype *)
GetDistribution0_reparameterizationFirst(obj, e) ==
  LET c == Call(BaseArgs(obj), e)
      ret == c.ret
  IN  IF ret.reparameterization_type # obj.reparameterization_type
        THEN [ok |-> FALSE, ret |-> ret, calls |-> <<c>>,
              error |-> [what |-> "reparameterize_type",
                         previously |-> obj.reparameterization_type,
                         now |-> ret.reparameterization_type]]
        ELSE IF ret.dtype # obj.dtype
          THEN [ok |-> FALSE, ret |-> ret, calls |-> <<c>>,
                error |-> [what |-> "dtype", previously |-> obj.dtype,
                           now |-> ret.dtype]]
          ELSE [ok |-> TRUE, ret |-> ret, calls |-> <<c>>, error |-> NoError]

(* _get_distribution0: one invocation of distribution_fn, then the two checks *)
GetDistribution0(obj, e) ==
  LET c == Call(BaseArgs(obj), e)
      ret == c.ret
  IN  IF ret.dtype # obj.dtype
        THEN [ok |-> FALSE, ret |-> ret, calls |-> <<c>>,
              error |-> [what |-> "dtype", previously |-> obj.dtype,
                         now |-> ret.dtype]]
        ELSE IF ret.reparameterization_type # obj.reparameterization_type
          THEN [ok |-> FALSE, ret |-> ret, calls |-> <<c>>,
                error |-> [what |-> "reparameterize_type",
                           previously |-> obj.reparameterization_type,
                           now |-> ret.reparameterization_type]]
          ELSE [ok |-> TRUE, ret |-> ret, calls |-> <<c>>, error |-> NoError]

(* A recurrence step that re-invokes distribution_fn on the base argument  *)
(* instead of the running sample                                            *)
Step_onSample0(acc, token, e) ==
  LET c == Call(acc.calls[1].args, e)
  IN  [samples |-> HandleSample(c.ret, None, token),
       calls |-> Append(acc.calls, c),
       draws |-> Append(acc.draws, Draw(None, token))]

(* A recurrence step that advances the seed token before it draws *)
Step_advancesToken(acc, token, e) ==
  LET c == Call(<<acc.samples>>, e)
      next == (token + Len(acc.draws)) % (MaxSeed + 1)
  IN  [samples |-> HandleSample(c.ret, None, next),
       calls |-> Append(acc.calls, c),
       draws |-> Append(acc.draws, Draw(None, next))]

(* One recurrence step: samples = self.distribution_fn(samples).sample(seed=seed) *)
Step(acc, token, e) ==
  LET c == Call(<<acc.samples>>, e)
  IN  [samples |-> HandleSample(c.ret, None, token),
       calls |-> Append(acc.calls, c),
       draws |-> Append(acc.draws, Draw(None, token))]

(* A loop that takes a negative count for its magnitude *)
RECURSIVE Unrolled_magnitude(_, _, _, _)
Unrolled_magnitude(k, acc, token, e) ==
  IF k = 0
    THEN acc
    ELSE Unrolled_magnitude((IF k < 0 THEN 0 - k ELSE k) - 1, Step(acc, token, e), token, e)

(* for _ in range(num_steps_static): ... *)
RECURSIVE Unrolled(_, _, _, _)
Unrolled(k, acc, token, e) ==
  IF k <= 0 THEN acc ELSE Unrolled(k - 1, Step(acc, token, e), token, e)

(* An index range that starts at 1 *)
Range_fromOne(limit) == [i \in 1..(IF limit > 1 THEN limit - 1 ELSE 0) |-> i]

(* tf.range(0, limit) *)
Range(limit) == [i \in 1..(IF limit > 0 THEN limit ELSE 0) |-> i - 1]

(* tf.foldl(lambda s, _: ..., elems, initializer) *)
RECURSIVE Foldl(_, _, _, _)
Foldl(elems, acc, token, e) ==
  IF elems = <<>> THEN acc ELSE Foldl(Tail(elems), Step(acc, token, e), token, e)

(* Step-count resolution that takes the rank of the event shape for its     *)
(* element count                                                             *)
ResolveSteps_rank(obj, e, d0, graph) ==
  IF obj.num_steps # None
    THEN [static |-> GetStaticValue(obj.num_steps[1], e, graph),
          dynamic |-> NumStepsValue(obj.num_steps[1], e)]
    ELSE [static |-> IF NumElements(d0.event_shape) = None
                       THEN None ELSE Some(Len(d0.event_shape)),
          dynamic |-> Len(d0.event_shape_tensor)]

(* _sample_n, step-count resolution: the static count when there is one,   *)
(* and the count evaluated at run time                                       *)
ResolveSteps(obj, e, d0, graph) ==
  IF obj.num_steps # None
    THEN [static |-> GetStaticValue(obj.num_steps[1], e, graph),
          dynamic |-> NumStepsValue(obj.num_steps[1], e)]
    ELSE [static |-> NumElements(d0.event_shape),
          dynamic |-> ReduceProd(d0.event_shape_tensor)]

(* A seed derivation that does not forward the caller's seed *)
SeedToken_dropsSeed(seed, fresh) == SeedStream(None, Salt, fresh)

(* seed = SeedStream(seed, salt='Autoregressive')() *)
SeedToken(seed, fresh) == SeedStream(seed, Salt, fresh)

(* _sample_n after a successful _get_distribution0 *)
SampleN(obj, e, d0, n, seed, fresh, graph) ==
  LET num_steps == ResolveSteps(obj, e, d0.ret, graph)
      token == SeedToken(seed, fresh)
      acc0 == [samples |-> HandleSample(d0.ret, Some(n), token),
               calls |-> d0.calls,
               draws |-> <<Draw(Some(n), token)>>]
      acc == IF num_steps.static # None
               THEN Unrolled(num_steps.static[1], acc0, token, e)
               ELSE Foldl(Range(num_steps.dynamic), acc0, token, e)
  IN  [samples |-> acc.samples,
       calls |-> acc.calls,
       draws |-> acc.draws,
       token |-> token,
       path |-> IF num_steps.static # None THEN "unrolled" ELSE "foldl",
       steps |-> IF num_steps.static # None
                   THEN num_steps.static[1] ELSE num_steps.dynamic]

(* __init__ building distribution0 a second time for the recorded tags *)
InitObject_callsTwice(s0, ns, va, e) ==
  LET c == Call(IF s0 # None THEN <<s0[1]>> ELSE <<>>, e)
      distribution0 == c.ret
  IN  [obj |-> [distribution_fn |-> "distribution_fn",
                sample0 |-> s0,
                num_steps |-> ns,
                validate_args |-> va,
                dtype |-> distribution0.dtype,
                reparameterization_type |-> distribution0.reparameterization_type],
       calls |-> <<c, c>>]

(* __init__: the one invocation of distribution_fn and the fields it sets *)
InitObject(s0, ns, va, e) ==
  LET c == Call(IF s0 # None THEN <<s0[1]>> ELSE <<>>, e)
      distribution0 == c.ret
  IN  [obj |-> [distribution_fn |-> "distribution_fn",
                sample0 |-> s0,
                num_steps |-> ns,
                validate_args |-> va,
                dtype |-> distribution0.dtype,
                reparameterization_type |-> distribution0.reparameterization_type],
       calls |-> <<c>>]

(* Distribution.__init__ runs _parameter_control_dependencies(is_init=True) *)
(* and the assertions it returns: a failing one raises InvalidArgument.     *)
InitAssertionsFail(obj, e) ==
  \E a \in ParameterControlDependencies(obj, TRUE) : ~AssertionHolds(a, obj, e)

----------------------------------------------------------------------------
(* The state machine *)

Init ==
  /\ constructed = "no"
  /\ self = NullSelf
  /\ ext \in {e \in Exts : e.variable = MaxSteps}
  /\ calls = <<>>
  /\ op = NoOp

(* __init__ *)
Construct ==
  /\ constructed = "no"
  /\ \E s0 \in Sample0Inputs, ns \in NumStepsInputs, va \in BOOLEAN :
       LET r == InitObject(s0, ns, va, ext)
       IN  /\ calls' = r.calls
           /\ IF InitAssertionsFail(r.obj, ext)
                THEN /\ constructed' = "failed"
                     /\ self' = NullSelf
                     /\ op' = [NoOp EXCEPT !.name = "construct",
                                           !.outcome = "InvalidArgument",
                                           !.tensor = ns]
                ELSE /\ constructed' = "yes"
                     /\ self' = r.obj
                     /\ op' = [NoOp EXCEPT !.name = "construct", !.tensor = ns]
  /\ UNCHANGED ext

(* The external state changes between operations: distribution_fn starts to *)
(* build distributions with another tag or event shape, or the tf.Variable  *)
(* that holds num_steps is assigned. The step keeps, in op.stale, the event *)
(* shape the query just before it returned, for comparison with the next.  *)
Env ==
  /\ \/ \E d \in DTypes \ {ext.dtype} : ext' = [ext EXCEPT !.dtype = d]
     \/ \E r \in ReparameterizationTypes \ {ext.reparameterization_type} :
          ext' = [ext EXCEPT !.reparameterization_type = r]
     \/ \E s \in Events \ {ext.event} : ext' = [ext EXCEPT !.event = s]
     \/ /\ self.num_steps # None /\ IsRef(self.num_steps[1])
        /\ \E v \in VariableValues \ {ext.variable} :
             ext' = [ext EXCEPT !.variable = v]
  /\ calls' = <<>>
  /\ op' = [NoOp EXCEPT !.name = "env",
                        !.stale = IF op.name = "event_shape_tensor" /\ op.outcome = "ok"
                                    THEN op.shape ELSE UnknownShape]
  /\ UNCHANGED <<constructed, self>>

(* _sample_n *)
Sample ==
  /\ constructed = "yes"
  /\ \E n \in Counts, seed \in Seeds :
     \E fresh \in Tokens,
        graph \in (IF self.num_steps # None /\ IsRef(self.num_steps[1])
                     THEN BOOLEAN ELSE {FALSE}) :
       LET d0 == GetDistribution0(self, ext)
           r == SampleN(self, ext, d0, n, seed, fresh, graph)
           same == op.name = "sample" /\ op.n = Some(n) /\ op.seed = seed
       IN  IF ~d0.ok
             THEN /\ calls' = d0.calls
                  /\ op' = [NoOp EXCEPT !.name = "sample",
                                        !.outcome = "ConsistencyError",
                                        !.n = Some(n), !.seed = seed,
                                        !.error = d0.error,
                                        !.repeat = same]
             ELSE /\ calls' = r.calls
                  /\ op' = [NoOp EXCEPT !.name = "sample",
                                        !.n = Some(n), !.seed = seed,
                                        !.token = Some(r.token),
                                        !.value = Some(r.samples),
                                        !.path = r.path,
                                        !.steps = Some(r.steps),
                                        !.draws = r.draws,
                                        !.graph = graph,
                                        !.repeat = same]
  /\ UNCHANGED <<constructed, self, ext>>

(* _log_prob evaluating the base distribution instead of distribution_fn(value) *)
LogProb_onSample0 ==
  /\ constructed = "yes"
  /\ \E value \in Vals :
       LET c == Call(BaseArgs(self), ext)
       IN  /\ calls' = <<c>>
           /\ op' = [NoOp EXCEPT !.name = "log_prob",
                                 !.arg = Some(value),
                                 !.value = Some(HandleLogProb(c.ret, value))]
  /\ UNCHANGED <<constructed, self, ext>>

(* _log_prob *)
LogProb ==
  /\ constructed = "yes"
  /\ \E value \in Vals :
       LET c == Call(<<value>>, ext)
       IN  /\ calls' = <<c>>
           /\ op' = [NoOp EXCEPT !.name = "log_prob",
                                 !.arg = Some(value),
                                 !.value = Some(HandleLogProb(c.ret, value))]
  /\ UNCHANGED <<constructed, self, ext>>

(* _prob *)
Prob ==
  /\ constructed = "yes"
  /\ \E value \in Vals :
       LET c == Call(<<value>>, ext)
       IN  /\ calls' = <<c>>
           /\ op' = [NoOp EXCEPT !.name = "prob",
                                 !.arg = Some(value),
                                 !.value = Some(HandleProb(c.ret, value))]
  /\ UNCHANGED <<constructed, self, ext>>

(* _batch_shape building the base distribution to read its static shape *)
BatchShape_materializes ==
  /\ constructed = "yes"
  /\ LET d0 == GetDistribution0(self, ext)
     IN  /\ calls' = d0.calls
         /\ op' = [NoOp EXCEPT !.name = "batch_shape",
                               !.shape = KnownShape(d0.ret.batch_shape_tensor)]
  /\ UNCHANGED <<constructed, self, ext>>

(* _batch_shape *)
BatchShape ==
  /\ constructed = "yes"
  /\ calls' = <<>>
  /\ op' = [NoOp EXCEPT !.name = "batch_shape", !.shape = UnknownShape]
  /\ UNCHANGED <<constructed, self, ext>>

(* _event_shape *)
EventShape ==
  /\ constructed = "yes"
  /\ calls' = <<>>
  /\ op' = [NoOp EXCEPT !.name = "event_shape", !.shape = UnknownShape]
  /\ UNCHANGED <<constructed, self, ext>>

(* _batch_shape_tensor *)
BatchShapeTensor ==
  /\ constructed = "yes"
  /\ LET d0 == GetDistribution0(self, ext)
     IN  /\ calls' = d0.calls
         /\ op' = IF d0.ok
                    THEN [NoOp EXCEPT !.name = "batch_shape_tensor",
                                      !.shape = KnownShape(d0.ret.batch_shape_tensor)]
                    ELSE [NoOp EXCEPT !.name = "batch_shape_tensor",
                                      !.outcome = "ConsistencyError",
                                      !.error = d0.error]
  /\ UNCHANGED <<constructed, self, ext>>

(* An _event_shape_tensor that answers from the handle of the query before *)
(* it when there is one, without invoking distribution_fn                   *)
EventShapeTensor_cached ==
  /\ constructed = "yes"
  /\ LET d0 == GetDistribution0(self, ext)
         before == IF op.name = "env" THEN op.stale ELSE UnknownShape
     IN  IF before.ranked
           THEN /\ calls' = <<>>
                /\ op' = [NoOp EXCEPT !.name = "event_shape_tensor",
                                      !.shape = before, !.stale = before]
           ELSE /\ calls' = d0.calls
                /\ op' = IF d0.ok
                           THEN [NoOp EXCEPT !.name = "event_shape_tensor",
                                             !.shape = KnownShape(d0.ret.event_shape_tensor)]
                           ELSE [NoOp EXCEPT !.name = "event_shape_tensor",
                                             !.outcome = "ConsistencyError",
                                             !.error = d0.error]
  /\ UNCHANGED <<constructed, self, ext>>

(* _event_shape_tensor (op.stale: what the query before the last change of  *)
(* the external state returned)                                             *)
EventShapeTensor ==
  /\ constructed = "yes"
  /\ LET d0 == GetDistribution0(self, ext)
         before == IF op.name = "env" THEN op.stale ELSE UnknownShape
     IN  /\ calls' = d0.calls
         /\ op' = IF d0.ok
                    THEN [NoOp EXCEPT !.name = "event_shape_tensor",
                                      !.shape = KnownShape(d0.ret.event_shape_tensor),
                                      !.stale = before]
                    ELSE [NoOp EXCEPT !.name = "event_shape_tensor",
                                      !.outcome = "ConsistencyError",
                                      !.error = d0.error]
  /\ UNCHANGED <<constructed, self, ext>>

(* The distribution_fn property *)
DistributionFnProperty ==
  /\ constructed = "yes"
  /\ calls' = <<>>
  /\ op' = [NoOp EXCEPT !.name = "distribution_fn", !.fn = self.distribution_fn]
  /\ UNCHANGED <<constructed, self, ext>>

(* The sample0 property *)
Sample0Property ==
  /\ constructed = "yes"
  /\ calls' = <<>>
  /\ op' = [NoOp EXCEPT !.name = "sample0", !.value = self.sample0]
  /\ UNCHANGED <<constructed, self, ext>>

(* A num_steps property that stores the count it derived in the object *)
NumStepsProperty_caches ==
  /\ constructed = "yes"
  /\ self.num_steps = None
  /\ LET d0 == GetDistribution0(self, ext)
         count == ReduceProd(d0.ret.event_shape_tensor)
     IN  /\ d0.ok
         /\ calls' = d0.calls
         /\ self' = [self EXCEPT !.num_steps =
                       Some([kind |-> "static", value |-> count, rank |-> 0])]
         /\ op' = [NoOp EXCEPT !.name = "num_steps", !.value = Some(count),
                               !.path = "static"]
  /\ UNCHANGED <<constructed, ext>>

(* A num_steps property that derives the count from distribution_fn's      *)
(* handle without _get_distribution0's checks                                *)
NumStepsProperty_unchecked ==
  /\ constructed = "yes"
  /\ IF self.num_steps = None
       THEN LET c == Call(BaseArgs(self), ext)
                num_steps_static == NumElements(c.ret.event_shape)
            IN  /\ calls' = <<c>>
                /\ op' = IF num_steps_static # None
                           THEN [NoOp EXCEPT !.name = "num_steps",
                                             !.value = num_steps_static,
                                             !.path = "static"]
                           ELSE [NoOp EXCEPT
                                   !.name = "num_steps",
                                   !.value = Some(ReduceProd(c.ret.event_shape_tensor)),
                                   !.path = "dynamic"]
       ELSE /\ calls' = <<>>
            /\ op' = [NoOp EXCEPT !.name = "num_steps", !.tensor = self.num_steps,
                                  !.path = "stored"]
  /\ UNCHANGED <<constructed, self, ext>>

(* The num_steps property and _num_steps_deprecated_behavior *)
NumStepsProperty ==
  /\ constructed = "yes"
  /\ IF self.num_steps = None
       THEN LET d0 == GetDistribution0(self, ext)
                num_steps_static == NumElements(d0.ret.event_shape)
            IN  /\ calls' = d0.calls
                /\ op' = IF ~d0.ok
                           THEN [NoOp EXCEPT !.name = "num_steps",
                                             !.outcome = "ConsistencyError",
                                             !.error = d0.error]
                           ELSE IF num_steps_static # None
                             THEN [NoOp EXCEPT !.name = "num_steps",
                                               !.value = num_steps_static,
                                               !.path = "static"]
                             ELSE [NoOp EXCEPT
                                     !.name = "num_steps",
                                     !.value = Some(ReduceProd(d0.ret.event_shape_tensor)),
                                     !.path = "dynamic"]
       ELSE /\ calls' = <<>>
            /\ op' = [NoOp EXCEPT !.name = "num_steps", !.tensor = self.num_steps,
                                  !.path = "stored"]
  /\ UNCHANGED <<constructed, self, ext>>

(* The distribution0 property *)
Distribution0Property ==
  /\ constructed = "yes"
  /\ LET d0 == GetDistribution0(self, ext)
     IN  /\ calls' = d0.calls
         /\ op' = IF d0.ok
                    THEN [NoOp EXCEPT !.name = "distribution0"]
                    ELSE [NoOp EXCEPT !.name = "distribution0",
                                      !.outcome = "ConsistencyError",
                                      !.error = d0.error]
  /\ UNCHANGED <<constructed, self, ext>>

(* _parameter_control_dependencies, called on the constructed object; the   *)
(* caller runs the assertions it returns                                     *)
CheckParameters ==
  /\ constructed = "yes"
  /\ \E is_init \in BOOLEAN :
       LET assertions == ParameterControlDependencies(self, is_init)
       IN  /\ calls' = <<>>
           /\ op' = [NoOp EXCEPT
                      !.name = "check_parameters",
                      !.arg = Some(IF is_init THEN 1 ELSE 0),
                      !.assertions = assertions,
                      !.outcome = IF \E a \in assertions : ~AssertionHolds(a, self, ext)
                                    THEN "ValidationFailure" ELSE "ok"]
  /\ UNCHANGED <<constructed, self, ext>>

Next ==
  \/ Construct
  \/ Env
  \/ Sample
  \/ LogProb
  \/ Prob
  \/ BatchShape
  \/ EventShape
  \/ BatchShapeTensor
  \/ EventShapeTensor
  \/ DistributionFnProperty
  \/ Sample0Property
  \/ NumStepsProperty
  \/ Distribution0Property
  \/ CheckParameters

Spec == Init /\ [][Next]_vars

----------------------------------------------------------------------------
(* Properties *)

TagsMatch(h) ==
  /\ h.dtype = self.dtype
  /\ h.reparameterization_type = self.reparameterization_type

StaticNumSteps ==
  /\ self.num_steps # None
  /\ ~IsRef(self.num_steps[1])

SampleReturned == op.name = "sample" /\ op.outcome = "ok"

(* The argument the i-th invocation of a sample call must have received: the *)
(* sample drawn from the handle of invocation i-1 (with the count n only for *)
(* the draw from the base handle).                                           *)
DrawnFrom(i) ==
  HandleSample(calls[i].ret, IF i = 1 THEN op.n ELSE None, op.token[1])

C2_ConstructionRejectsNonPositive ==
  (op.name = "construct" /\ op.tensor # None /\ ~IsRef(op.tensor[1])) =>
    /\ op.tensor[1].value < 1 =>
         (op.outcome = "InvalidArgument" /\ constructed = "failed")
    /\ op.tensor[1].value = 1 => (op.outcome = "ok" /\ constructed = "yes")

(* C3 as claimed: every handle distribution_fn produced in an operation that *)
(* completed without error carries the dtype and reparameterization_type    *)
(* recorded at construction.                                                 *)
C3_EveryHandleChecked ==
  (constructed = "yes" /\ op.outcome = "ok") =>
    \A i \in 1..Len(calls) : TagsMatch(calls[i].ret)

Materializes ==
  \/ op.name \in {"sample", "batch_shape_tensor", "event_shape_tensor", "distribution0"}
  \/ op.name = "num_steps" /\ self.num_steps = None

(* C3 amended: the handle of a re-materialization of the base distribution   *)
(* (the first invocation of sample, of the dynamic shape queries, of the    *)
(* distribution0 property and of the num_steps property without num_steps)  *)
(* carries the recorded dtype and reparameterization_type whenever the      *)
(* operation completed without error, and otherwise the operation ended in  *)
(* a ConsistencyError.                                                       *)
C3_MaterializedHandleChecked ==
  (constructed = "yes" /\ Materializes) =>
    /\ Len(calls) >= 1
    /\ calls[1] = Call(BaseArgs(self), ext)
    /\ op.outcome = "ok" => TagsMatch(calls[1].ret)
    /\ ~TagsMatch(calls[1].ret) => op.outcome = "ConsistencyError"

C3_Witness ==
  /\ SampleReturned
  /\ Len(calls) > 1
  /\ TagsMatch(calls[1].ret)
  /\ \E i \in 2..Len(calls) : ~TagsMatch(calls[i].ret)

(* C4: sample and the dynamic shape queries end in a ConsistencyError with   *)
(* no result exactly when the re-materialized base handle differs from the  *)
(* recorded dtype or reparameterization_type.                                *)
C4_MismatchFails ==
  (constructed = "yes"
     /\ op.name \in {"sample", "batch_shape_tensor", "event_shape_tensor"}) =>
    LET h == DistributionFn(BaseArgs(self), ext)
    IN  IF TagsMatch(h)
          THEN /\ op.outcome = "ok"
               /\ op.error = NoError
               /\ op.name = "sample" => op.value # None
               /\ op.name # "sample" => op.shape.ranked
          ELSE /\ op.outcome = "ConsistencyError"
               /\ op.value = None
               /\ op.shape = UnknownShape
               /\ op.error.what \in {"dtype", "reparameterize_type"}

C4_Witness ==
  /\ op.name = "event_shape_tensor"
  /\ op.outcome = "ConsistencyError"
  /\ op.error.what = "dtype"
  /\ DistributionFn(BaseArgs(self), ext).reparameterization_type
       = self.reparameterization_type

(* C5: log_prob(v) and prob(v) invoke distribution_fn exactly once, on v,    *)
(* and return that handle's log_prob(v), resp. prob(v).                      *)
C5_DensityDelegates ==
  (constructed = "yes" /\ op.name \in {"log_prob", "prob"}) =>
    /\ calls = <<Call(<<op.arg[1]>>, ext)>>
    /\ op.outcome = "ok"
    /\ op.value = Some(IF op.name = "log_prob"
                         THEN HandleLogProb(calls[1].ret, op.arg[1])
                         ELSE HandleProb(calls[1].ret, op.arg[1]))

C5_Witness ==
  /\ op.name = "log_prob"
  /\ self.sample0 # None
  /\ op.arg # self.sample0
  /\ Len(calls) = 1
  /\ self.num_steps # None

(* C6: without num_steps, a sample call that returns has made m recurrence  *)
(* steps (m + 1 invocations), m being the static element count of the event *)
(* shape of the base handle this very call materialized.                    *)
C6_StepsFromEventShape ==
  (SampleReturned /\ self.num_steps = None
     /\ NumElements(calls[1].ret.event_shape) # None) =>
    LET m == Product(calls[1].ret.event_shape)
    IN  /\ calls[1] = Call(BaseArgs(self), ext)
        /\ Len(calls) = m + 1
        /\ op.steps = Some(m)
        /\ op.path = "unrolled"
        /\ \A i \in 2..(m + 1) : calls[i] = Call(<<DrawnFrom(i - 1)>>, ext)

C6_Witness ==
  /\ SampleReturned /\ self.num_steps = None
  /\ calls[1].ret.event_shape = <<MaxDim>>
  /\ Len(calls) = MaxDim + 1

(* C7: a successful construction has invoked distribution_fn exactly once,   *)
(* on sample0 when there is one and with no argument otherwise, and the     *)
(* object records the dtype and reparameterization_type of that handle.     *)
C7_ConstructionInvokesOnce ==
  (op.name = "construct" /\ constructed = "yes") =>
    /\ Len(calls) = 1
    /\ calls[1].args = (IF self.sample0 # None THEN <<self.sample0[1]>> ELSE <<>>)
    /\ calls[1].ret = DistributionFn(calls[1].args, ext)
    /\ self.dtype = calls[1].ret.dtype
    /\ self.reparameterization_type = calls[1].ret.reparameterization_type

C7_Witness ==
  /\ op.name = "construct" /\ constructed = "yes"
  /\ self.validate_args
  /\ self.num_steps # None /\ ~IsRef(self.num_steps[1])
  /\ self.sample0 # None
  /\ self.dtype = "float64"

(* C8: the static shape queries return the unknown shape and invoke          *)
(* distribution_fn not at all.                                               *)
C8_StaticShapesUnknown ==
  (op.name \in {"batch_shape", "event_shape"}) =>
    /\ op.shape = UnknownShape
    /\ op.outcome = "ok"
    /\ calls = <<>>

C8_Witness ==
  /\ op.name = "batch_shape"
  /\ self.sample0 # None
  /\ ext.event.shape = <<MaxDim>>
  /\ TagsMatch(DistributionFn(BaseArgs(self), ext))

(* C9: a sample call that follows a sample call with the same n and the same *)
(* explicit seed, the behaviour of distribution_fn being unchanged in       *)
(* between, makes the same invocations and has the same outcome and result. *)
C9_Determinism ==
  [][(/\ op.name = "sample" /\ op'.name = "sample"
      /\ ext' = ext
      /\ op'.n = op.n /\ op'.seed = op.seed /\ op.seed # None)
     => (/\ calls' = calls
         /\ op'.outcome = op.outcome
         /\ op'.value = op.value
         /\ op'.token = op.token)]_vars

C9_Witness ==
  /\ SampleReturned
  /\ op.repeat
  /\ op.seed # None
  /\ Len(calls) > 1

(* C10: once the object is constructed, no operation changes its fields.     *)
C10_FieldsImmutable ==
  [][constructed = "yes" => (constructed' = "yes" /\ self' = self)]_vars

C10_Witness ==
  /\ constructed = "yes"
  /\ op.name = "num_steps"
  /\ op.value # None
  /\ self.num_steps = None

(* C11: a sample call that returns derived one seed token, from its seed and *)
(* the salt 'Autoregressive', and passed that same token to the draw from   *)
(* the base handle and to the draw of every recurrence step; only the draw  *)
(* from the base handle received the count n.  A call that failed at the    *)
(* materialization derived no token.                                        *)
C11_OneTokenForAllDraws ==
  /\ SampleReturned =>
       /\ op.token # None
       /\ op.seed # None => op.token = Some(SeedStream(op.seed, "Autoregressive", 0))
       /\ Len(op.draws) = Len(calls)
       /\ \A i \in 1..Len(op.draws) : op.draws[i].token = op.token[1]
       /\ op.draws[1].n = op.n
       /\ \A i \in 2..Len(op.draws) : op.draws[i].n = None
  /\ (op.name = "sample" /\ op.outcome # "ok") => (op.token = None /\ op.draws = <<>>)

C11_Witness ==
  /\ SampleReturned
  /\ op.seed # None
  /\ Len(op.draws) = MaxSteps + 1
  /\ op.n = Some(MaxCount)

(* C12: for the base handle, token and resolved count of a sample call that  *)
(* returned, the unrolled loop and the fold make the same invocations and   *)
(* draws in the same order and end with the same sample, which is what the  *)
(* call made and returned; and the call took the fold exactly when it had   *)
(* no static count: num_steps a tf.Variable read while a graph is built, or *)
(* num_steps omitted and the event shape's element count not static.        *)
C12_PathsEquivalent ==
  SampleReturned =>
    LET token == op.token[1]
        acc0 == [samples |-> HandleSample(calls[1].ret, op.n, token),
                 calls |-> <<calls[1]>>,
                 draws |-> <<Draw(op.n, token)>>]
        s == op.steps[1]
        unrolled == Unrolled(s, acc0, token, ext)
        fold == Foldl(Range(s), acc0, token, ext)
    IN  /\ unrolled = fold
        /\ fold.calls = calls
        /\ fold.draws = op.draws
        /\ Some(fold.samples) = op.value
        /\ Len(calls) = 1 + (IF s > 0 THEN s ELSE 0)
        /\ op.path \in {"unrolled", "foldl"}
        /\ op.path = "foldl" <=>
             \/ self.num_steps # None /\ IsRef(self.num_steps[1]) /\ op.graph
             \/ self.num_steps = None /\ NumElements(calls[1].ret.event_shape) = None

C12_Witness ==
  /\ SampleReturned
  /\ op.path = "foldl"
  /\ self.num_steps = None
  /\ op.steps = Some(MaxDim)
  /\ Len(calls) = MaxDim + 1

C14_FailedMaterialization ==
  (op.name = "sample" /\ op.outcome = "ConsistencyError") =>
    LET ret == calls[1].ret
    IN  /\ Len(calls) = 1
        /\ calls[1] = Call(BaseArgs(self), ext)
        /\ op.draws = <<>>
        /\ op.token = None
        /\ op.value = None
        /\ op.steps = None
        /\ IF ret.dtype # self.dtype
             THEN op.error = [what |-> "dtype", previously |-> self.dtype,
                              now |-> ret.dtype]
             ELSE /\ ret.reparameterization_type # self.reparameterization_type
                  /\ op.error = [what |-> "reparameterize_type",
                                 previously |-> self.reparameterization_type,
                                 now |-> ret.reparameterization_type]
        /\ op.error.previously # op.error.now

C14_Witness ==
  /\ op.name = "sample" /\ op.outcome = "ConsistencyError"
  /\ Len(calls) = 1
  /\ calls[1].ret.dtype # self.dtype
  /\ calls[1].ret.reparameterization_type # self.reparameterization_type
  /\ op.error.what = "dtype"
  /\ op.seed # None

(* C15: the base distribution is never kept from one call to the next. Every *)
(* sample call and every dynamic shape query makes exactly one invocation of *)
(* distribution_fn on the base argument for its materialization, under the  *)
(* external state of that call, and works on the handle that invocation     *)
(* returned: a shape query makes no other invocation and returns that       *)
(* handle's shape, a sample call draws first from that handle.              *)
C15_NeverCached ==
  (op.name \in {"sample", "batch_shape_tensor", "event_shape_tensor"}) =>
    /\ Len(calls) >= 1
    /\ calls[1] = Call(BaseArgs(self), ext)
    /\ op.name # "sample" => Len(calls) = 1
    /\ (op.name = "batch_shape_tensor" /\ op.outcome = "ok") =>
         op.shape = KnownShape(calls[1].ret.batch_shape_tensor)
    /\ (op.name = "event_shape_tensor" /\ op.outcome = "ok") =>
         op.shape = KnownShape(calls[1].ret.event_shape_tensor)
    /\ SampleReturned =>
         /\ \A i \in 2..Len(calls) : calls[i].args = <<DrawnFrom(i - 1)>>
         /\ op.value = Some(DrawnFrom(Len(calls)))

(* Two event-shape queries with a change of the external state between     *)
(* them: the second returns the shape of its own handle, not the first's.  *)
C15_Witness ==
  /\ op.name = "event_shape_tensor" /\ op.outcome = "ok"
  /\ op.stale.ranked
  /\ op.stale # op.shape
  /\ Len(calls) = 1
  /\ op.shape = KnownShape(calls[1].ret.event_shape_tensor)

(* C16: the num_steps property of an object built with num_steps returns the *)
(* stored value and invokes nothing. Without num_steps it makes exactly one *)
(* invocation of distribution_fn, on the base argument, fails if the handle *)
(* has other tags than the recorded ones, and otherwise returns the element *)
(* count of the handle's event shape: the product of the static dimensions  *)
(* when all are known, else the product of the run-time dimensions. The     *)
(* object's num_steps stays unset, and a sample taken in the same external  *)
(* state runs as many steps as the property returned.                       *)
C16_NumStepsAccessor ==
  op.name = "num_steps" =>
    IF self.num_steps # None
      THEN /\ calls = <<>>
           /\ op.outcome = "ok"
           /\ op.tensor = self.num_steps
           /\ op.path = "stored"
      ELSE /\ Len(calls) = 1
           /\ calls[1] = Call(BaseArgs(self), ext)
           /\ op.tensor = None
           /\ op.outcome = (IF TagsMatch(calls[1].ret) THEN "ok" ELSE "ConsistencyError")
           /\ op.outcome # "ok" => op.value = None
           /\ op.outcome = "ok" =>
                LET shape == calls[1].ret.event_shape
                    known == \A i \in 1..Len(shape) : shape[i] # UnknownDim
                    d0 == GetDistribution0(self, ext)
                IN  /\ op.path = (IF known THEN "static" ELSE "dynamic")
                    /\ op.value = Some(IF known
                                         THEN Product(shape)
                                         ELSE Product(calls[1].ret.event_shape_tensor))
                    /\ \A n \in Counts, seed \in Seeds, fresh \in Tokens :
                         Some(SampleN(self, ext, d0, n, seed, fresh, FALSE).steps) = op.value

C16_Witness ==
  /\ op.name = "num_steps" /\ op.outcome = "ok"
  /\ self.num_steps = None
  /\ op.path = "dynamic"
  /\ op.value = Some(MaxDim)
  /\ Len(calls) = 1

====
